---------------------------- MODULE Spec2Model ----------------------------
(***************************************************************************)
(* A model of the TFTP client of src/src/lib.rs: put_file and get_file     *)
(* driving one UDP socket, and TftpError::from_error_code.                 *)
(*                                                                         *)
(* One behaviour is one call of get_file or of put_file.  The socket is    *)
(* the environment: `sent` is the list of send_to calls the client made,   *)
(* `rcvd` the list of datagrams recv_from delivered to it.  Bytes are      *)
(* integers 0..255, byte strings are sequences, Rust's 0-based half-open   *)
(* slice s[a..b] is Slice(s, a, b).                                        *)
(*                                                                         *)
(* put_file never looks at the bytes of its data argument, so the argument *)
(* is its length data_len with the fixed contents DataByte, and a DATA     *)
(* packet sent is kept as its 4-byte header and the bounds `chunk` of the  *)
(* slice &data[start..end] copied after it; SentBytes gives its bytes.     *)
(*                                                                         *)
(* recv_from has the POSIX semantics: a datagram longer than the buffer    *)
(* is cut to the buffer's length and that length is returned.              *)
(***************************************************************************)
EXTENDS Integers, Sequences, FiniteSets, TLC

VARIABLES
    fn,               \* the function called: "none", "get_file", "put_file"
    pc,               \* "idle", "recv" (blocked in recv_from), "done" (returned
                      \* Ok), "failed" (returned Err), "panicked"
    path,             \* the path argument (bytes of the &str)
    data_len,         \* data.len() of put_file's data argument
    sent,             \* send_to calls so far: [to, bytes, chunk]
    rcvd,             \* datagrams recv_from returned so far: [from, bytes]
    final_data,       \* get_file's final_data
    sends_completed,  \* put_file's sends_completed (u16)
    final_recv,       \* put_file's final_recv
    result,           \* the value returned (NoResult until the call returns)
    srv_file          \* the file a protocol-following server serves to get_file

vars == <<fn, pc, path, data_len, sent, rcvd, final_data, sends_completed,
          final_recv, result, srv_file>>

---------------------------------------------------------------------------
(* Program constants *)

OPCODE_RRQ == <<0, 1>>
OPCODE_WRQ == <<0, 2>>
OPCODE_DAT == <<0, 3>>
OPCODE_ACK == <<0, 4>>
OPCODE_ERR == <<0, 5>>
NULL == <<0>>
NETASCII == <<110, 101, 116, 97, 115, 99, 105, 105>>

\* "127.0.0.1:69", the address both requests are sent to
REQUEST_ADDR == "127.0.0.1:69"

\* the length of the receive buffer, [u8; 516]
BUF_LEN == 516
\* the chunk length of put_file
CHUNK == 512
\* the number of values of a u16
U16 == 65536
\* U+FFFD, what from_utf8_lossy puts for an invalid sequence
REPLACEMENT == 65533

---------------------------------------------------------------------------
(* Bounds of the model *)

\* the number of datagrams one call may receive under Spec
MaxRecv == 3

---------------------------------------------------------------------------
(* Helpers: Rust slices and integers *)

Min(a, b) == IF a < b THEN a ELSE b

\* s[a..b]; in range iff SliceOk
Slice(s, a, b) == SubSeq(s, a + 1, b)
SliceOk(s, a, b) == a <= b /\ b <= Len(s)

\* u16::from_be_bytes([hi, lo])
from_be_bytes(hi, lo) == hi * 256 + lo
\* x.to_be_bytes() of a u16
to_be_bytes(x) == <<x \div 256, x % 256>>

Last(s) == s[Len(s)]

\* what recv_from leaves in a zeroed buffer of BUF_LEN bytes, and its count
RecvBytes(dgram) == Min(Len(dgram), BUF_LEN)
RecvBuffer(dgram) ==
    [i \in 1..BUF_LEN |-> IF i <= Len(dgram) THEN dgram[i] ELSE 0]

---------------------------------------------------------------------------
(* Results *)

NoResult == [kind |-> "none", err |-> "", data |-> <<>>]
\* a panic inside an expression that should have produced a value
Panic == [kind |-> "panic", err |-> "", data |-> <<>>]
Ok(v) == [kind |-> "Ok", err |-> "", data |-> v]
Err(variant, v) == [kind |-> "Err", err |-> variant, data |-> v]


---------------------------------------------------------------------------
(* TftpError::from_error_code *)

\* String::from_utf8_lossy(s[i..]) as the list of code points of the String:
\* a well-formed UTF-8 sequence gives its code point, every maximal ill-formed
\* prefix gives one U+FFFD.
RECURSIVE Utf8Lossy(_, _)
Utf8Lossy(s, i) ==
    IF i > Len(s) THEN <<>>
    ELSE
    LET b == s[i]
        at(k) == IF i + k <= Len(s) THEN s[i + k] ELSE -1
        width == IF b < 128 THEN 1
                 ELSE IF b \in 194..223 THEN 2
                 ELSE IF b \in 224..239 THEN 3
                 ELSE IF b \in 240..244 THEN 4
                 ELSE 0
        lo2 == IF b = 224 THEN 160 ELSE IF b = 240 THEN 144 ELSE 128
        hi2 == IF b = 237 THEN 159 ELSE IF b = 244 THEN 143 ELSE 191
        cont(x) == x \in 128..191
    IN  IF width = 1 THEN <<b>> \o Utf8Lossy(s, i + 1)
        ELSE IF width = 0 \/ at(1) \notin lo2..hi2
             THEN <<REPLACEMENT>> \o Utf8Lossy(s, i + 1)
        ELSE IF width = 2
             THEN <<(b - 192) * 64 + (at(1) - 128)>> \o Utf8Lossy(s, i + 2)
        ELSE IF ~cont(at(2))
             THEN <<REPLACEMENT>> \o Utf8Lossy(s, i + 2)
        ELSE IF width = 3
             THEN <<(b - 224) * 4096 + (at(1) - 128) * 64 + (at(2) - 128)>>
                  \o Utf8Lossy(s, i + 3)
        ELSE IF ~cont(at(3))
             THEN <<REPLACEMENT>> \o Utf8Lossy(s, i + 3)
        ELSE <<(b - 240) * 262144 + (at(1) - 128) * 4096
               + (at(2) - 128) * 64 + (at(3) - 128)>> \o Utf8Lossy(s, i + 4)

from_utf8_lossy(s) == Utf8Lossy(s, 1)

\* the variants the patterns [0, k, ..] select, k = 1..7
ErrorVariants ==
    <<"FileNotFound", "AccessViolation", "DiskFull", "IllegalOperation",
      "UnknownTransferID", "FileAlreadyExists", "NoSuchUser">>

\* a mutation of from_error_code: the patterns matched against the second
\* byte alone
from_error_code_low_byte(response) ==
    IF Len(response) >= 2 /\ response[2] \in 1..7
    THEN Err(ErrorVariants[response[2]], <<>>)
    ELSE IF ~SliceOk(response, 2, Len(response)) THEN Panic
    ELSE Err("NotDefined", from_utf8_lossy(Slice(response, 2, Len(response))))

\* from_error_code(response): the slice patterns need two bytes; the default
\* arm takes response[2..], which panics on a slice shorter than two bytes.
from_error_code(response) ==
    IF Len(response) >= 2 /\ response[1] = 0 /\ response[2] \in 1..7
    THEN Err(ErrorVariants[response[2]], <<>>)
    ELSE IF ~SliceOk(response, 2, Len(response)) THEN Panic
    ELSE Err("NotDefined", from_utf8_lossy(Slice(response, 2, Len(response))))

---------------------------------------------------------------------------
(* Datagrams the client builds *)

\* byte i (from 0) of put_file's data: the bytes differ from chunk to chunk
DataByte(i) == i % 251
\* &data[start..end], in range iff DataSliceOk
DataSlice(start, end) == [i \in 1..(end - start) |-> DataByte(start + i - 1)]
DataSliceOk(start, end) == start <= end /\ end <= data_len

\* a send_to of bytes to addr
Datagram(addr, bytes) == [to |-> addr, bytes |-> bytes, chunk |-> <<0, 0>>]
\* a send_to of header followed by &data[start..end] to addr
DataDatagram(addr, header, start, end) ==
    [to |-> addr, bytes |-> header, chunk |-> <<start, end>>]
\* the bytes of a datagram sent
SentBytes(m) == m.bytes \o DataSlice(m.chunk[1], m.chunk[2])

\* a mutation of send_ack: the two block-number bytes go out swapped
send_ack_swapped(block_num, socket_addr) ==
    Datagram(socket_addr, OPCODE_ACK \o <<block_num[2], block_num[1]>>)

\* send_ack's payload and destination
send_ack(block_num, socket_addr) == Datagram(socket_addr, OPCODE_ACK \o block_num)

\* put_file's request
put_file_payload(p) == OPCODE_WRQ \o p \o NULL \o NETASCII \o NULL

\* a mutation of get_file_payload: the NUL after the mode is left out
get_file_payload_open(p) == OPCODE_RRQ \o p \o NULL \o NETASCII

\* get_file's request
get_file_payload(p) == OPCODE_RRQ \o p \o NULL \o NETASCII \o NULL

---------------------------------------------------------------------------
(* The inputs: arguments of the calls, and datagrams the socket delivers *)

\* a transfer address a server answers from
TID_ADDR == "127.0.0.1:50001"
\* recv_from reports any source address, the request address included
Addrs == {REQUEST_ADDR, TID_ADDR}

\* "a", "", "f.b" and a path with a NUL in it
Paths == {<<97>>, <<>>, <<102, 46, 98>>, <<102, 0, 98>>}

\* file contents: the bytes differ from one chunk to the next
FileOf(len) == [i \in 1..len |-> (i - 1) % 241]
\* payload contents: the bytes differ from one seed to the next
Fill(len, seed) == [i \in 1..len |-> (seed + i) % 256]

DataDgram(block_num, len) == OPCODE_DAT \o block_num \o Fill(len, 16 * block_num[2])
AckDgram(block) == OPCODE_ACK \o to_be_bytes(block)
ErrDgram(code, msg) == OPCODE_ERR \o code \o msg

DataInputs ==
    { DataDgram(<<0, 1>>, CHUNK), DataDgram(<<0, 2>>, CHUNK),
      DataDgram(<<1, 2>>, CHUNK), DataDgram(<<0, 1>>, CHUNK + 1),
      DataDgram(<<0, 1>>, 300), DataDgram(<<0, 2>>, 300),
      DataDgram(<<0, 2>>, 0), DataDgram(<<0, 3>>, CHUNK - 1) }

AckInputs == { AckDgram(b) : b \in 0..2 }

\* "nf" NUL;  an ill-formed byte, "h", NUL;  U+00E9, NUL
Msgs == <<(<<110, 102, 0>>), (<<255, 104, 0>>), (<<195, 169, 0>>)>>
ErrInputs ==
    { ErrDgram(<<0, k>>, Msgs[1]) : k \in 0..8 }
    \cup { ErrDgram(<<1, 1>>, Msgs[1]), ErrDgram(<<2, 0>>, Msgs[3]),
           ErrDgram(<<0, 0>>, <<>>), ErrDgram(<<0, 1>>, <<>>),
           ErrDgram(<<0, 0>>, Msgs[2]), ErrDgram(<<0, 9>>, Msgs[3]),
           ErrDgram(<<0, 2>>, Fill(CHUNK + 1, 64)) }

\* datagrams of at least four bytes whose opcode is none of DATA, ACK, ERROR
OtherInputs ==
    { <<0, 0, 0, 1>>, get_file_payload(<<97>>), put_file_payload(<<97>>),
      <<0, 6, 0, 1>>, <<1, 3, 0, 1, 9>>, <<3, 0, 0, 1>>, <<4, 4, 0, 0>>,
      <<0, 9>> \o Fill(BUF_LEN - 2, 1), <<0, 7>> \o Fill(BUF_LEN - 1, 2) }

\* datagrams shorter than the four bytes of opcode and block number or code
TruncatedInputs ==
    { <<>>, <<0>>, <<7>>, <<0, 3>>, <<0, 3, 0>>, <<0, 4>>,
      <<0, 5>>, <<0, 5, 0>>, <<0, 9>>, <<0, 6, 1>> }

Datagrams ==
    DataInputs \cup AckInputs \cup ErrInputs \cup OtherInputs \cup TruncatedInputs

\* put_file's arguments under Spec: <<path, data.len()>>
PutInputs ==
    { <<(<<97>>), len>> : len \in {0, 1, CHUNK, 600} }
    \cup { <<(<<102, 0, 98>>), 0>> }

---------------------------------------------------------------------------
(* The calls *)

Init ==
    /\ fn = "none"
    /\ pc = "idle"
    /\ path = <<>>
    /\ data_len = 0
    /\ sent = <<>>
    /\ rcvd = <<>>
    /\ final_data = <<>>
    /\ sends_completed = 1
    /\ final_recv = FALSE
    /\ result = NoResult
    /\ srv_file = <<>>

\* get_file up to its first recv_from: the request is sent.  `file` is what
\* the server holds under that path (read by a protocol-following server only).
get_file_call(p, file) ==
    /\ pc = "idle"
    /\ fn' = "get_file"
    /\ path' = p
    /\ srv_file' = file
    /\ sent' = Append(sent, Datagram(REQUEST_ADDR, get_file_payload(p)))
    /\ final_data' = <<>>
    /\ pc' = "recv"
    /\ UNCHANGED <<data_len, rcvd, sends_completed, final_recv, result>>

\* put_file up to its first recv_from: the request is sent.
put_file_call(p, len) ==
    /\ pc = "idle"
    /\ fn' = "put_file"
    /\ path' = p
    /\ data_len' = len
    /\ sent' = Append(sent, Datagram(REQUEST_ADDR, put_file_payload(p)))
    /\ sends_completed' = 1
    /\ final_recv' = FALSE
    /\ pc' = "recv"
    /\ UNCHANGED <<rcvd, final_data, result, srv_file>>

\* the call ends without returning: an unwrap, an index or an overflow panicked
panicked ==
    /\ pc' = "panicked"
    /\ UNCHANGED <<fn, path, data_len, sent, final_data, sends_completed,
                   final_recv, result, srv_file>>

\* the call returns r without sending anything more
returns(r) ==
    /\ pc' = (IF r.kind = "Ok" THEN "done" ELSE "failed")
    /\ result' = r
    /\ UNCHANGED <<fn, path, data_len, sent, final_data, sends_completed,
                   final_recv, srv_file>>

\* a mutation of return_error: the data received so far is handed back
return_error_partial(response, bytes) == returns(Ok(final_data))

\* return Err(TftpError::from_error_code(&response[2..bytes]))
return_error(response, bytes) ==
    IF ~SliceOk(response, 2, bytes) THEN panicked
    ELSE LET e == from_error_code(Slice(response, 2, bytes))
         IN  IF e = Panic THEN panicked ELSE returns(e)

\* a mutation of return_invalid: an ERROR packet is sent before returning
return_invalid_reply(response) ==
    /\ pc' = "failed"
    /\ result' = Err("InvalidResponse", response)
    /\ sent' = Append(sent, Datagram(REQUEST_ADDR, OPCODE_ERR \o <<0, 4>> \o NULL))
    /\ UNCHANGED <<fn, path, data_len, final_data, sends_completed,
                   final_recv, srv_file>>

\* return Err(TftpError::InvalidResponse(response.to_vec()))
return_invalid(response) == returns(Err("InvalidResponse", response))

\* a mutation of is_final_packet: a full packet ends the transfer too
is_final_packet_le(bytes) == bytes <= BUF_LEN

\* if bytes < 516 { break; }
is_final_packet(bytes) == bytes < BUF_LEN

\* the bytes get_file appends to final_data for a DATA packet
data_payload(response, bytes) == Slice(response, 4, Len(response))

\* a mutation of recv_from: the call returns although no datagram arrived
recv_from_timeout(dgram, socket_addr) == rcvd' = rcvd

\* sock.recv_from(&mut response): blocks until a datagram arrives, dgram
\* from socket_addr, which the history of datagrams received records
recv_from(dgram, socket_addr) ==
    rcvd' = Append(rcvd, [from |-> socket_addr, bytes |-> dgram])

\* One pass of get_file's loop: recv_from returns dgram from socket_addr.
get_file_loop(dgram, socket_addr) ==
    LET response == RecvBuffer(dgram)
        bytes == RecvBytes(dgram)
    IN  /\ pc = "recv"
        /\ fn = "get_file"
        /\ recv_from(dgram, socket_addr)
        /\ CASE Slice(response, 0, 2) = OPCODE_DAT ->
                  /\ sent' = Append(sent, send_ack(Slice(response, 2, 4), socket_addr))
                  /\ final_data' = final_data \o data_payload(response, bytes)
                  /\ IF is_final_packet(bytes)
                     THEN pc' = "done" /\ result' = Ok(final_data')
                     ELSE pc' = "recv" /\ UNCHANGED result
                  /\ UNCHANGED <<fn, path, data_len, sends_completed, final_recv, srv_file>>
             [] Slice(response, 0, 2) = OPCODE_ERR -> return_error(response, bytes)
             [] OTHER -> return_invalid(response)

\* if u16::from_be_bytes([response[2], response[3]]) == sends_completed
\*    { sends_completed += 1; }          (the sum before any wrapping)
next_sends_completed(response, sc) ==
    IF from_be_bytes(response[3], response[4]) = sc THEN sc + 1 ELSE sc

\* a mutation of past_end: a chunk that ends exactly at the end of the data
\* counts as the last one
past_end_ge(end, len) == end >= len

\* end > data.len(): the chunk that ends at `end` is the last one
past_end(end, len) == end > len

\* The ACK arm of put_file while final_recv is false, lines 102-112, as the
\* record [panic, sends_completed, final_recv, start, end].  The counter and
\* both products are u16: a build with overflow checks panics where a value
\* leaves 0..65535, a build without them keeps the value modulo 65536.
ack_arm(response, overflow_checks) ==
    LET sum == next_sends_completed(response, sends_completed)
        sc == sum % U16
        prod_end == sc * CHUNK
        end0 == prod_end % U16
        last == past_end(end0, data_len)
        end == IF last THEN data_len ELSE end0
        diff == sc - 1
        prod_start == (diff % U16) * CHUNK
        start == prod_start % U16
        overflow == sum >= U16 \/ prod_end >= U16 \/ diff < 0 \/ prod_start >= U16
    IN  [panic |-> (overflow_checks /\ overflow) \/ ~DataSliceOk(start, end),
         sends_completed |-> sc,
         final_recv |-> last,
         start |-> start,
         end |-> end]

\* a mutation of data_packet: the block number goes out low byte first
data_packet_le(sc, start, end, socket_addr) ==
    DataDatagram(socket_addr, OPCODE_DAT \o <<sc % 256, sc \div 256>>, start, end)

\* the DATA packet of line 112, sent to socket_addr
data_packet(sc, start, end, socket_addr) ==
    DataDatagram(socket_addr, OPCODE_DAT \o to_be_bytes(sc), start, end)

\* One pass of put_file's loop: recv_from returns dgram from socket_addr.
put_file_loop(dgram, socket_addr, overflow_checks) ==
    LET response == RecvBuffer(dgram)
        bytes == RecvBytes(dgram)
        arm == ack_arm(response, overflow_checks)
    IN  /\ pc = "recv"
        /\ fn = "put_file"
        /\ recv_from(dgram, socket_addr)
        /\ CASE Slice(response, 0, 2) = OPCODE_ACK ->
                  IF final_recv = TRUE THEN returns(Ok(<<>>))
                  ELSE IF arm.panic THEN panicked
                  ELSE /\ sends_completed' = arm.sends_completed
                       /\ final_recv' = arm.final_recv
                       /\ sent' = Append(sent,
                              data_packet(arm.sends_completed, arm.start, arm.end,
                                          socket_addr))
                       /\ pc' = "recv"
                       /\ UNCHANGED <<fn, path, data_len, final_data, result, srv_file>>
             [] Slice(response, 0, 2) = OPCODE_ERR -> return_error(response, bytes)
             [] OTHER -> return_invalid(response)

---------------------------------------------------------------------------
(* Spec: the socket delivers any datagram from any address *)

GetFileCall == \E p \in Paths : get_file_call(p, <<>>)

PutFileCall == \E in \in PutInputs : put_file_call(in[1], in[2])

GetFileLoop ==
    /\ Len(rcvd) < MaxRecv
    /\ \E dgram \in Datagrams, socket_addr \in Addrs :
           get_file_loop(dgram, socket_addr)

PutFileLoop ==
    /\ Len(rcvd) < MaxRecv
    /\ \E dgram \in Datagrams, socket_addr \in Addrs, overflow_checks \in BOOLEAN :
           put_file_loop(dgram, socket_addr, overflow_checks)

Next == GetFileCall \/ PutFileCall \/ GetFileLoop \/ PutFileLoop

Spec == Init /\ [][Next]_vars

---------------------------------------------------------------------------
(* LockStepSpec: no datagram is lost and the server follows RFC 1350.  It  *)
(* answers from TID_ADDR: WRQ with ACK(0), DATA(k) with ACK(k), RRQ with    *)
(* DATA(1), and ACK(k) with DATA(k+1) unless chunk k was the short one.    *)

\* chunk k (k >= 1) of the server's file
ServerChunk(k) ==
    SubSeq(srv_file, (k - 1) * CHUNK + 1, Min(k * CHUNK, Len(srv_file)))

ServerData(k) == OPCODE_DAT \o to_be_bytes(k % U16) \o ServerChunk(k)

\* the server's answers to the datagram the client sent last: one or none
ServerReplies ==
    LET m == SentBytes(Last(sent))
        opc == SubSeq(m, 1, 2)
        k == from_be_bytes(m[3], m[4])
    IN  CASE opc = OPCODE_WRQ -> { AckDgram(0) }
          [] opc = OPCODE_RRQ -> { ServerData(1) }
          [] opc = OPCODE_DAT -> { OPCODE_ACK \o SubSeq(m, 3, 4) }
          [] opc = OPCODE_ACK ->
                 IF k * CHUNK <= Len(srv_file) THEN { ServerData(k + 1) } ELSE {}
          [] OTHER -> {}

\* the lengths of the files served and of the data put under LockStepSpec;
\* 65023 is the longest data put_file's u16 products allow
ServedLens == {0, 1, 300, CHUNK - 1, CHUNK, CHUNK + 1, 812, 2 * CHUNK}
PutLens == {0, 1, CHUNK - 1, CHUNK, CHUNK + 1, 600, 2 * CHUNK - 1, 2 * CHUNK,
            2 * CHUNK + 1, 3 * CHUNK, 127 * CHUNK - 1, 127 * CHUNK, 127 * CHUNK + 1}

LockStepGetCall ==
    \E p \in {<<97>>, <<102, 46, 98>>}, len \in ServedLens :
        get_file_call(p, FileOf(len))

LockStepPutCall ==
    \E len \in PutLens : put_file_call(<<97>>, len)

LockStepGetLoop ==
    /\ pc = "recv"
    /\ \E dgram \in ServerReplies : get_file_loop(dgram, TID_ADDR)

LockStepPutLoop ==
    /\ pc = "recv"
    /\ \E dgram \in ServerReplies, overflow_checks \in BOOLEAN :
        put_file_loop(dgram, TID_ADDR, overflow_checks)

LockStepNext ==
    LockStepGetCall \/ LockStepPutCall \/ LockStepGetLoop \/ LockStepPutLoop

LockStepSpec == Init /\ [][LockStepNext]_vars

---------------------------------------------------------------------------
(* What the claims speak of *)

\* put_file's data argument, whole
Data == DataSlice(0, data_len)

\* the call has ended: it returned or it panicked
Ended == pc \in {"done", "failed", "panicked"}

HasOpcode(d, lo) == Len(d) >= 2 /\ d[1] = 0 /\ d[2] = lo
IsData(d) == HasOpcode(d, 3)
IsAck(d) == HasOpcode(d, 4)
IsError(d) == HasOpcode(d, 5)

\* a datagram's bytes after the 4-byte header
PayloadOf(d) == SubSeq(d, 5, Len(d))

\* the payloads of the DATA datagrams among received lo..hi, in order
\* (halving keeps the evaluation shallow on long transfers)
RECURSIVE ReceivedPayloads(_, _)
ReceivedPayloads(lo, hi) ==
    IF lo > hi THEN <<>>
    ELSE IF lo = hi
         THEN IF IsData(rcvd[lo].bytes) THEN PayloadOf(rcvd[lo].bytes) ELSE <<>>
    ELSE LET mid == (lo + hi) \div 2
         IN  ReceivedPayloads(lo, mid) \o ReceivedPayloads(mid + 1, hi)

\* the payloads of the DATA datagrams among sent lo..hi, in order
RECURSIVE SentPayloads(_, _)
SentPayloads(lo, hi) ==
    IF lo > hi THEN <<>>
    ELSE IF lo = hi
         THEN IF IsData(sent[lo].bytes) THEN PayloadOf(SentBytes(sent[lo])) ELSE <<>>
    ELSE LET mid == (lo + hi) \div 2
         IN  SentPayloads(lo, mid) \o SentPayloads(mid + 1, hi)

\* the first position >= i of s that holds a NUL, Len(s) + 1 if none does
FirstNul(s, i) ==
    IF \E j \in i..Len(s) : s[j] = 0
    THEN CHOOSE j \in i..Len(s) : s[j] = 0 /\ \A h \in i..(j - 1) : s[h] # 0
    ELSE Len(s) + 1

\* a request datagram split at its NUL bytes
DecodeRequest(b) ==
    LET n1 == FirstNul(b, 3)
        n2 == FirstNul(b, n1 + 1)
    IN  [opcode |-> SubSeq(b, 1, 2),
         filename |-> SubSeq(b, 3, n1 - 1),
         mode |-> SubSeq(b, n1 + 1, n2 - 1)]

---------------------------------------------------------------------------
(* C1..C10 *)

\* C1: when get_file returns Ok(buffer), buffer is the concatenation, in the
\* order received, of the payloads (the bytes after the 4-byte header) of the
\* DATA datagrams received.  (Checked under LockStepSpec: violated.)
C1_BufferIsPayloads ==
    (fn = "get_file" /\ pc = "done") => result = Ok(ReceivedPayloads(1, Len(rcvd)))

\* C2: with a lock-step server put_file sends DATA 1, 2, ..., n in that
\* order, DATA(k) carries data[(k-1)*512 .. min(k*512, L)], and when the call
\* has ended the payloads sent make up data.  (LockStepSpec: violated.)
C2_ChunksInOrder ==
    fn = "put_file" =>
        /\ \A k \in 1..(Len(sent) - 1) :
               SentBytes(sent[k + 1]) =
                   <<0, 3>> \o <<k \div 256, k % 256>>
                   \o DataSlice((k - 1) * 512, Min(k * 512, data_len))
        /\ Ended => SentPayloads(1, Len(sent)) = Data

\* C3: with a lock-step server put_file returns Ok after exactly
\* floor(L/512)+1 DATA packets sent and floor(L/512)+2 ACKs received, and the
\* last DATA packet is shorter than a full one (empty when 512 divides L).
\* (LockStepSpec: violated.)
C3_PacketCounts ==
    (fn = "put_file" /\ Ended) =>
        /\ pc = "done"
        /\ result = Ok(<<>>)
        /\ Len(sent) - 1 = (data_len \div 512) + 1
        /\ Len(rcvd) = (data_len \div 512) + 2
        /\ \A i \in 1..Len(rcvd) : IsAck(rcvd[i].bytes)
        /\ \A i \in 2..Len(sent) : IsData(sent[i].bytes)
        /\ Len(PayloadOf(SentBytes(Last(sent)))) < 512
        /\ (data_len % 512 = 0 => PayloadOf(SentBytes(Last(sent))) = <<>>)

\* the error an ERROR packet's 16-bit code and message stand for
MappedError(code, msg) ==
    IF code \in 1..7 THEN Err(ErrorVariants[code], <<>>)
    ELSE Err("NotDefined", from_utf8_lossy(msg))

\* C4: an ERROR packet (opcode 5 and a 2-byte code) received by get_file,
\* first or after any number of DATA packets, ends the call at once with Err
\* of the error its code maps to (FileNotFound for code 1): nothing is sent
\* for it, and no buffer is returned.
C4_ErrorEndsGet ==
    fn = "get_file" =>
        \A i \in 1..Len(rcvd) :
            LET d == rcvd[i].bytes IN
            (IsError(d) /\ Len(d) >= 4) =>
                /\ i = Len(rcvd)
                /\ pc = "failed"
                /\ Len(sent) = i
                /\ result.kind = "Err"
                /\ result = MappedError(d[3] * 256 + d[4], SubSeq(d, 5, Len(d)))
                /\ (d[3] = 0 /\ d[4] = 1 => result.err = "FileNotFound")

\* C4's case: an ERROR packet with code 1 after a DATA packet was taken
C4_Witness ==
    /\ fn = "get_file"
    /\ Len(rcvd) = 2
    /\ IsData(rcvd[1].bytes)
    /\ Len(rcvd[2].bytes) >= 4
    /\ SubSeq(rcvd[2].bytes, 1, 4) = <<0, 5, 0, 1>>
    /\ final_data # <<>>
    /\ pc = "failed"

\* the opcodes a call handles
Handled == IF fn = "get_file" THEN {3, 5} ELSE {4, 5}

\* C5: a datagram (with its 4-byte header; shorter ones are C7's) whose
\* first two bytes are no opcode the call handles ends it with InvalidResponse
\* of exactly the datagram's bytes.  (Spec: violated.)
C5_InvalidResponseIsDatagram ==
    \A i \in 1..Len(rcvd) :
        LET d == rcvd[i].bytes IN
        (Len(d) >= 4 /\ ~(d[1] = 0 /\ d[2] \in Handled)) =>
            /\ i = Len(rcvd)
            /\ pc = "failed"
            /\ result = Err("InvalidResponse", d)

\* C6: from_error_code gives, for the codes 1..7, the seven fixed variants
\* whatever the message, and for code 0 and every code above 7 (a non-zero
\* high byte included) NotDefined with the bytes after the code as text.
C6_ErrorCodeMapping ==
    \A i \in 1..Len(rcvd) :
        LET d == rcvd[i].bytes
            code == d[3] * 256 + d[4]
            msg == SubSeq(d, 5, Len(d))
        IN  (IsError(d) /\ Len(d) >= 4) =>
                /\ pc = "failed"
                /\ code = 1 => result = Err("FileNotFound", <<>>)
                /\ code = 2 => result = Err("AccessViolation", <<>>)
                /\ code = 3 => result = Err("DiskFull", <<>>)
                /\ code = 4 => result = Err("IllegalOperation", <<>>)
                /\ code = 5 => result = Err("UnknownTransferID", <<>>)
                /\ code = 6 => result = Err("FileAlreadyExists", <<>>)
                /\ code = 7 => result = Err("NoSuchUser", <<>>)
                /\ code \notin 1..7 =>
                       /\ result.kind = "Err"
                       /\ result.err = "NotDefined"
                       /\ result.data = from_utf8_lossy(msg)
                       /\ (\A j \in 1..Len(msg) : msg[j] < 128) => result.data = msg
                       /\ msg = <<255, 104, 0>> => result.data = <<65533, 104, 0>>
                       /\ msg = <<195, 169, 0>> => result.data = <<233, 0>>

\* C6's case: code 0x0101, whose low byte alone would name FileNotFound
C6_Witness ==
    /\ Len(rcvd) >= 1
    /\ Len(Last(rcvd).bytes) >= 4
    /\ SubSeq(Last(rcvd).bytes, 1, 4) = <<0, 5, 1, 1>>
    /\ result = Err("NotDefined", <<110, 102, 0>>)

\* C7: a datagram shorter than 4 bytes, whatever its first two bytes, ends
\* the call with Err(InvalidResponse) that carries its bytes: no panic, no Ok,
\* no further pass of the loop.  (Spec: violated.)
C7_TruncatedIsInvalidResponse ==
    \A i \in 1..Len(rcvd) :
        LET d == rcvd[i].bytes IN
        Len(d) < 4 =>
            /\ i = Len(rcvd)
            /\ pc = "failed"
            /\ result.err = "InvalidResponse"
            /\ SubSeq(result.data, 1, Len(d)) = d

\* every datagram received so far has its 4-byte header
FullHeaders == \A j \in 1..Len(rcvd) : Len(rcvd[j].bytes) >= 4

\* C8: every datagram sent after the request goes to the source address of
\* the first datagram received, also when a later datagram arrives from
\* another address.  Stated for transfers whose datagrams have their header,
\* to keep C7's case apart.  (Spec: violated.)
C8_FixedPeer ==
    FullHeaders => \A i \in 2..Len(sent) : sent[i].to = rcvd[1].from

NoNul(s) == \A j \in 1..Len(s) : s[j] # 0

\* the request as the wire format gives it
WireRequest ==
    (IF fn = "get_file" THEN <<0, 1>> ELSE <<0, 2>>)
    \o path \o <<0>> \o <<110, 101, 116, 97, 115, 99, 105, 105>> \o <<0>>

\* the first datagram sent is the request, to the request address, with the
\* wire format's bytes, and a NUL-free filename is recovered by splitting
RequestFirst ==
    /\ Len(sent) >= 1
    /\ sent[1].to = REQUEST_ADDR
    /\ SentBytes(sent[1]) = WireRequest
    /\ NoNul(path) =>
           DecodeRequest(SentBytes(sent[1])) =
               [opcode |-> (IF fn = "get_file" THEN <<0, 1>> ELSE <<0, 2>>),
                filename |-> path,
                mode |-> <<110, 101, 116, 97, 115, 99, 105, 105>>]

\* C9 as stated: the request comes first, with the wire format's bytes, and
\* no other datagram is sent to the request address.  Stated for transfers
\* whose datagrams have their header, to keep C7's case apart.
\* (Spec: violated.)
C9_RequestOnly ==
    (fn # "none" /\ FullHeaders) =>
        /\ RequestFirst
        /\ \A i \in 2..Len(sent) : sent[i].to # REQUEST_ADDR

\* C9 amended: the request comes first, with the wire format's bytes, and a
\* later datagram is sent to the request address only when the datagram it
\* answers arrived from that address.
C9_RequestFirst ==
    fn # "none" =>
        /\ RequestFirst
        /\ \A i \in 2..Len(sent) :
               sent[i].to = REQUEST_ADDR => rcvd[i - 1].from = REQUEST_ADDR

\* C9's case: get_file of "f.b" answered from the request address
C9_Witness ==
    /\ fn = "get_file"
    /\ path = <<102, 46, 98>>
    /\ Len(sent) = 2
    /\ SentBytes(sent[1]) = <<0, 1, 102, 46, 98, 0, 110, 101, 116, 97, 115, 99, 105, 105, 0>>
    /\ sent[2].to = REQUEST_ADDR

\* C10: get_file is Done exactly when the datagram received last is a DATA
\* datagram shorter than 516 bytes, the first such one, and its ACK was sent;
\* a DATA datagram of exactly 516 bytes is acknowledged and the call waits on.
C10_DoneOnShortData ==
    fn = "get_file" =>
        /\ pc = "done" <=>
               /\ Len(rcvd) >= 1
               /\ IsData(Last(rcvd).bytes)
               /\ Len(Last(rcvd).bytes) < 516
        /\ \A i \in 1..Len(rcvd) :
               LET d == rcvd[i].bytes IN
               IsData(d) =>
                   /\ Len(d) < 516 => i = Len(rcvd)
                   /\ Len(sent) >= i + 1
                   /\ sent[i + 1].to = rcvd[i].from
                   /\ SubSeq(SentBytes(sent[i + 1]), 1, 2) = <<0, 4>>
                   /\ Len(d) >= 4 => SentBytes(sent[i + 1]) = <<0, 4, d[3], d[4]>>
                   /\ (Len(d) = 516 /\ i = Len(rcvd)) =>
                          pc = "recv" /\ Len(sent) = i + 1

\* C10's case: a DATA datagram of 516 bytes, then one of 515
C10_Witness ==
    /\ fn = "get_file"
    /\ Len(rcvd) = 2
    /\ IsData(rcvd[1].bytes) /\ Len(rcvd[1].bytes) = 516
    /\ IsData(rcvd[2].bytes) /\ Len(rcvd[2].bytes) = 515
    /\ pc = "done"

---------------------------------------------------------------------------
(* C11..C20 *)

\* the DATA datagrams among those received, by position
DataReceived == { i \in 1..Len(rcvd) : IsData(rcvd[i].bytes) }

\* C11: get_file answers every DATA datagram it receives, whatever its block
\* number, with exactly one ACK before it receives again: the ACK is the four
\* bytes 00 04 and the two block-number bytes of that DATA datagram, so the
\* block numbers of the ACKs sent are, in order, those of the DATA received.
C11_AckEchoesBlock ==
    fn = "get_file" =>
        /\ Len(sent) = 1 + Cardinality(DataReceived)
        /\ DataReceived = 1..Cardinality(DataReceived)
        /\ \A i \in DataReceived :
               LET d == rcvd[i].bytes
                   ack == SentBytes(sent[i + 1])
               IN  /\ Len(ack) = 4
                   /\ SubSeq(ack, 1, 2) = <<0, 4>>
                   /\ Len(d) >= 4 => SubSeq(ack, 3, 4) = SubSeq(d, 3, 4)

\* C11's case: DATA 2, then DATA 258, then DATA 1, each acknowledged
C11_Witness ==
    /\ fn = "get_file"
    /\ Len(rcvd) = 3 /\ Len(sent) = 4
    /\ \A i \in 1..3 : IsData(rcvd[i].bytes) /\ Len(rcvd[i].bytes) >= 4
    /\ SubSeq(rcvd[1].bytes, 3, 4) = <<0, 2>>
    /\ SubSeq(rcvd[2].bytes, 3, 4) = <<1, 2>>
    /\ SubSeq(rcvd[3].bytes, 3, 4) = <<0, 1>>
    /\ SentBytes(sent[3]) = <<0, 4, 1, 2>>

\* the block number a DATA or ACK datagram of at least four bytes carries
BlockOf(d) == from_be_bytes(d[3], d[4])

\* C12: when put_file returns Ok, the ACK that ended the transfer carries the
\* block number of the DATA packet sent last, whatever ACKs came before it.
\* (Violated: once the last DATA is out, any ACK ends the transfer.)
C12_FinalAckIsForLastData ==
    (fn = "put_file" /\ pc = "done" /\ FullHeaders) =>
        /\ IsAck(Last(rcvd).bytes)
        /\ IsData(Last(sent).bytes)
        /\ BlockOf(Last(rcvd).bytes) = BlockOf(SentBytes(Last(sent)))

\* the DATA datagrams put_file has sent are sent[2], sent[3], ...
DataSent == 2..Len(sent)

\* C13: whatever ACKs arrive, the block numbers of the DATA packets put_file
\* sends start at 1 and each one equals the one before it or is one greater,
\* so no chunk is skipped.  (Violated: a first ACK carrying block 1 advances
\* the counter before anything was sent.)
C13_BlocksStartAtOneAndStep ==
    (fn = "put_file" /\ FullHeaders) =>
        /\ Len(sent) >= 2 => BlockOf(SentBytes(sent[2])) = 1
        /\ \A i \in DataSent :
               i + 1 \in DataSent =>
                   BlockOf(SentBytes(sent[i + 1])) - BlockOf(SentBytes(sent[i])) \in {0, 1}

\* C14: sends and receives alternate strictly.  A transfer starts with one
\* send, the request; each receive is followed by at most one send before
\* the next receive, so while the client waits it has sent exactly one
\* datagram more than it received; and a receive that ends the transfer
\* (the final ACK of put_file, an ERROR or an unhandled opcode in either) is
\* followed by no send, while get_file's final DATA is followed by its ACK.
C14_StrictAlternation ==
    fn # "none" =>
        /\ Len(sent) >= 1
        /\ sent[1].to = REQUEST_ADDR
        /\ Len(sent) - Len(rcvd) \in {0, 1}
        /\ pc = "recv" => Len(sent) = Len(rcvd) + 1
        /\ pc = "failed" => Len(sent) = Len(rcvd)
        /\ pc = "done" =>
               Len(sent) = (IF fn = "put_file" THEN Len(rcvd) ELSE Len(rcvd) + 1)

\* C14's case: a call ended by an unhandled opcode after two exchanges, with
\* nothing sent after the datagram that ended it
C14_Witness ==
    /\ Len(rcvd) = 3 /\ Len(sent) = 3
    /\ pc = "failed"
    /\ result.err = "InvalidResponse"

NextBlock(response) == next_sends_completed(response, sends_completed)

\* C16: for every data length and every value the counter reaches, files of
\* 128 blocks and more included, the chunk bounds put_file computes are
\* start = (next_block - 1) * 512 and end = min(next_block * 512, data.len())
\* as integers: the u16 arithmetic neither overflows nor wraps.  Stated of
\* every ACK the lock-step server can send while the client waits.
\* (Violated: the counter reaches 128 and 128 * 512 does not fit a u16.)
C16_BoundsAsIntegers ==
    (fn = "put_file" /\ pc = "recv" /\ final_recv = FALSE) =>
        \A dgram \in ServerReplies, overflow_checks \in BOOLEAN :
            LET response == RecvBuffer(dgram)
                arm == ack_arm(response, overflow_checks)
            IN  IsAck(dgram) =>
                    /\ ~arm.panic
                    /\ arm.start = (NextBlock(response) - 1) * CHUNK
                    /\ arm.end = Min(NextBlock(response) * CHUNK, data_len)

\* C17: with no datagram lost and a server that follows the protocol, every
\* get_file and put_file call on a finite file comes to an end in Done or in
\* an error it returns: a call that has not ended so is one the server's
\* next datagram carries on, and it is never left aborted short of both.
\* (Violated: put_file of 65024 bytes and more aborts at block 128.)
C17_EndsDoneOrFailed ==
    fn # "none" => (pc \in {"done", "failed"} \/ ENABLED LockStepNext)

\* C18: there is no retry and no timeout.  A client that waits in recv_from
\* changes nothing until a datagram arrives: it sends no request, ACK or
\* DATA again and it does not end; whenever a datagram is sent or the call
\* ends, that step is the handling of one datagram just received.
C18_BlockedUntilDatagram ==
    [][ (pc = "recv" /\ (sent' # sent \/ pc' # pc \/ result' # result))
            => (Len(rcvd') = Len(rcvd) + 1 /\ SubSeq(rcvd', 1, Len(rcvd)) = rcvd) ]_vars

\* C18's case: get_file has acknowledged a full DATA packet and waits for the
\* next one
C18_Witness ==
    /\ fn = "get_file" /\ pc = "recv"
    /\ Len(rcvd) = 1 /\ Len(rcvd[1].bytes) = BUF_LEN
    /\ Len(sent) = 2 /\ IsAck(sent[2].bytes)

\* C19: every DATA datagram put_file sends, after any sequence of ACKs, is
\* 00 03, then the block number as two bytes high byte first, then the
\* payload: the payload is at most 512 bytes, the bytes of data that start at
\* (block - 1) * 512, the datagram is at most 516 bytes, and the block
\* number of the datagram sent last is sends_completed.
C19_DataPacketFormat ==
    fn = "put_file" =>
        /\ \A i \in DataSent :
               LET b == SentBytes(sent[i])
                   k == BlockOf(b)
               IN  /\ Len(b) >= 4 /\ Len(b) <= BUF_LEN
                   /\ SubSeq(b, 1, 2) = <<0, 3>>
                   /\ Len(PayloadOf(b)) <= CHUNK
                   /\ k >= 1 /\ k <= sends_completed
                   /\ PayloadOf(b) = DataSlice((k - 1) * CHUNK, Min(k * CHUNK, data_len))
        /\ Len(sent) >= 2 => BlockOf(SentBytes(Last(sent))) = sends_completed

\* C19's case: 600 bytes of data, DATA 1 with 512 bytes sent twice (a
\* duplicate ACK came in between), then DATA 2 with the last 88 bytes
C19_Witness ==
    /\ fn = "put_file" /\ data_len = 600
    /\ Len(sent) = 4
    /\ SentBytes(sent[2]) = <<0, 3, 0, 1>> \o DataSlice(0, CHUNK)
    /\ sent[3] = sent[2]
    /\ SentBytes(sent[4]) = <<0, 3, 0, 2>> \o DataSlice(CHUNK, 600)

\* every datagram received so far is an ACK with its block number
OnlyAcks == \A j \in 1..Len(rcvd) : IsAck(rcvd[j].bytes) /\ Len(rcvd[j].bytes) >= 4

\* C20: for any data length and any sequence of ACKs, a first ACK with block
\* number 1 included, the bounds of each slice put_file takes satisfy
\* (next_block - 1) * 512 <= end <= data.len(): every DATA datagram sent has
\* such bounds and put_file never aborts on an index out of range.  Stated
\* of the calls that received ACKs only.
\* (Violated: data shorter than 512 bytes and a first ACK with block 1.)
C20_SliceInRange ==
    (fn = "put_file" /\ OnlyAcks) =>
        /\ pc # "panicked"
        /\ \A i \in DataSent :
               /\ (BlockOf(sent[i].bytes) - 1) * CHUNK = sent[i].chunk[1]
               /\ sent[i].chunk[1] <= sent[i].chunk[2]
               /\ sent[i].chunk[2] <= data_len
=============================================================================
